---- MODULE Spec2Model ----
(***************************************************************************)
(* Model of the autocorrect plugin in src/main.ts: the text-correction     *)
(* function autocorrectText over the spelling dictionary, the live         *)
(* "change" handler installed by applyLiveAutocorrect, the whole-document  *)
(* autocorrect command, and the grammar check with its result panel.       *)
(*                                                                         *)
(* A JavaScript string is modelled as a sequence of one-character strings. *)
(***************************************************************************)
EXTENDS Integers, Sequences, FiniteSets, TLC

(***************************************************************************)
(* Characters and the String.prototype methods the code uses.              *)
(***************************************************************************)
LowerLetters == <<"a","b","c","d","e","f","g","h","i","j","k","l","m","n","o","p","q","r","s","t","u","v","w","x","y","z">>
UpperLetters == <<"A","B","C","D","E","F","G","H","I","J","K","L","M","N","O","P","Q","R","S","T","U","V","W","X","Y","Z">>
Lower == {LowerLetters[i] : i \in 1..Len(LowerLetters)}
Upper == {UpperLetters[i] : i \in 1..Len(UpperLetters)}
Digits == {"0","1","2","3","4","5","6","7","8","9"}

\* \w of the regular expressions: letters, digits and underscore
IsWordChar(c) == c \in Lower \cup Upper \cup Digits \cup {"_"}

\* \s of the regular expressions (the ASCII part)
IsSpace(c) == c \in {" ", "\t", "\n", "\r"}

UpperOf == [c \in Lower |-> UpperLetters[CHOOSE i \in 1..Len(LowerLetters) : LowerLetters[i] = c]]
LowerOf == [c \in Upper |-> LowerLetters[CHOOSE i \in 1..Len(UpperLetters) : UpperLetters[i] = c]]

\* c.toUpperCase() and c.toLowerCase() on one character
upperChar(c) == IF c \in Lower THEN UpperOf[c] ELSE c
lowerChar(c) == IF c \in Upper THEN LowerOf[c] ELSE c

toUpperCase(s) == [i \in 1..Len(s) |-> upperChar(s[i])]
toLowerCase(s) == [i \in 1..Len(s) |-> lowerChar(s[i])]

\* s.slice(from, to) with 0-based, end-exclusive indices, clamped like slice
slice(s, from, to) ==
    LET f == IF from < 0 THEN 0 ELSE IF from > Len(s) THEN Len(s) ELSE from
        t == IF to < 0 THEN 0 ELSE IF to > Len(s) THEN Len(s) ELSE to
    IN  IF t <= f THEN <<>> ELSE SubSeq(s, f + 1, t)

\* number of leading characters of s, from 1-based index i on, that satisfy
\* \w (word = TRUE) or \s (word = FALSE)
RECURSIVE RunLen(_, _, _)
RunLen(s, i, word) ==
    IF i > Len(s) THEN 0
    ELSE IF (word /\ IsWordChar(s[i])) \/ (~word /\ IsSpace(s[i]))
         THEN 1 + RunLen(s, i + 1, word)
         ELSE 0

(***************************************************************************)
(* The spelling dictionary, a plain object literal.                        *)
(***************************************************************************)
entries ==
    <<"t","e","h">> :> <<"t","h","e">> @@
    <<"r","e","c","i","e","v","e">> :> <<"r","e","c","e","i","v","e">> @@
    <<"d","e","f","i","n","a","t","e","l","y">> :> <<"d","e","f","i","n","i","t","e","l","y">> @@
    <<"a","d","n">> :> <<"a","n","d">> @@
    <<"t","h","i","e","r">> :> <<"t","h","e","i","r">> @@
    <<"s","e","p","e","r","a","t","e">> :> <<"s","e","p","a","r","a","t","e">> @@
    <<"a","c","c","o","m","o","d","a","t","e">> :> <<"a","c","c","o","m","m","o","d","a","t","e">> @@
    <<"a","c","h","e","i","v","e">> :> <<"a","c","h","i","e","v","e">> @@
    <<"b","e","l","e","i","v","e">> :> <<"b","e","l","i","e","v","e">> @@
    <<"e","m","b","a","r","a","s","s">> :> <<"e","m","b","a","r","r","a","s","s">> @@
    <<"n","e","c","c","e","s","s","a","r","y">> :> <<"n","e","c","e","s","s","a","r","y">> @@
    <<"g","r","a","m","m","e","r">> :> <<"g","r","a","m","m","a","r">> @@
    <<"m","i","n","i","s","c","u","l","e">> :> <<"m","i","n","u","s","c","u","l","e">> @@
    <<"o","c","a","s","s","i","o","n">> :> <<"o","c","c","a","s","i","o","n">> @@
    <<"p","h","a","r","o","a","h">> :> <<"p","h","a","r","a","o","h">> @@
    <<"p","u","b","l","i","c","a","l","l","y">> :> <<"p","u","b","l","i","c","l","y">> @@
    <<"i","n","d","e","p","e","n","d","a","n","t">> :> <<"i","n","d","e","p","e","n","d","e","n","t">> @@
    <<"j","u","d","g","e","m","e","n","t">> :> <<"j","u","d","g","m","e","n","t">> @@
    <<"c","o","n","g","r","a","d","u","l","a","t","i","o","n","s">> :> <<"c","o","n","g","r","a","t","u","l","a","t","i","o","n","s">> @@
    <<"s","u","p","e","r","c","e","d","e">> :> <<"s","u","p","e","r","s","e","d","e">> @@
    <<"i","r","r","e","s","i","s","t","a","b","l","e">> :> <<"i","r","r","e","s","i","s","t","i","b","l","e">> @@
    <<"m","a","i","n","t","a","n","e","n","c","e">> :> <<"m","a","i","n","t","e","n","a","n","c","e">> @@
    <<"p","r","i","v","e","l","e","g","e">> :> <<"p","r","i","v","i","l","e","g","e">> @@
    <<"b","e","g","i","n","i","n","g">> :> <<"b","e","g","i","n","n","i","n","g">> @@
    <<"b","u","s","s","i","n","e","s","s">> :> <<"b","u","s","i","n","e","s","s">> @@
    <<"w","i","e","r","d">> :> <<"w","e","i","r","d">> @@
    <<"t","r","u","e","l","y">> :> <<"t","r","u","l","y">> @@
    <<"a","l","o","t">> :> <<"a"," ","l","o","t">> @@
    <<"a","l","l","t","o","g","e","t","h","e","r">> :> <<"a","l","t","o","g","e","t","h","e","r">> @@
    <<"u","n","t","i","l","l">> :> <<"u","n","t","i","l">> @@
    <<"l","i","a","s","o","n">> :> <<"l","i","a","i","s","o","n">> @@
    <<"a","d","r","e","s","s">> :> <<"a","d","d","r","e","s","s">> @@
    <<"c","a","l","e","n","d","e","r">> :> <<"c","a","l","e","n","d","a","r">> @@
    <<"e","x","i","s","t","a","n","c","e">> :> <<"e","x","i","s","t","e","n","c","e">> @@
    <<"f","o","r","i","e","g","n">> :> <<"f","o","r","e","i","g","n">> @@
    <<"g","o","v","e","r","m","e","n","t">> :> <<"g","o","v","e","r","n","m","e","n","t">> @@
    <<"h","a","r","r","a","s","s">> :> <<"h","a","r","a","s","s">> @@
    <<"h","i","e","r","a","c","h","y">> :> <<"h","i","e","r","a","r","c","h","y">> @@
    <<"m","i","s","c","h","e","v","i","o","u","s">> :> <<"m","i","s","c","h","i","e","v","o","u","s">> @@
    <<"n","o","t","i","c","a","b","l","e">> :> <<"n","o","t","i","c","e","a","b","l","e">> @@
    <<"p","e","r","s","e","v","e","r","e","n","c","e">> :> <<"p","e","r","s","e","v","e","r","a","n","c","e">> @@
    <<"p","r","e","c","e","e","d">> :> <<"p","r","e","c","e","d","e">> @@
    <<"s","u","c","c","e","s","f","u","l","l","y">> :> <<"s","u","c","c","e","s","s","f","u","l","l","y">> @@
    <<"t","o","m","m","o","r","o","w">> :> <<"t","o","m","o","r","r","o","w">> @@
    <<"u","n","f","o","r","s","e","e","n">> :> <<"u","n","f","o","r","e","s","e","e","n">> @@
    <<"v","a","c","c","u","m">> :> <<"v","a","c","u","u","m">> @@
    <<"w","r","i","t","e","n">> :> <<"w","r","i","t","t","e","n">> @@
    <<"c","u","r","i","o","u","s","i","t","y">> :> <<"c","u","r","i","o","s","i","t","y">> @@
    <<"f","a","m","i","l","a","r">> :> <<"f","a","m","i","l","i","a","r">> @@
    <<"g","u","a","g","e">> :> <<"g","a","u","g","e">> @@
    <<"h","e","i","r","a","r","c","h","y">> :> <<"h","i","e","r","a","r","c","h","y">> @@
    <<"k","n","o","w","l","e","g","e">> :> <<"k","n","o","w","l","e","d","g","e">> @@
    <<"m","i","l","l","e","n","i","u","m">> :> <<"m","i","l","l","e","n","n","i","u","m">> @@
    <<"p","o","s","s","e","s","i","o","n">> :> <<"p","o","s","s","e","s","s","i","o","n">> @@
    <<"r","e","c","c","o","m","m","e","n","d">> :> <<"r","e","c","o","m","m","e","n","d">> @@
    <<"r","i","d","i","c","u","l","o","u","s">> :> <<"r","i","d","i","c","u","l","o","u","s">> @@
    <<"s","i","s","s","o","r","s">> :> <<"s","c","i","s","s","o","r","s">> @@
    <<"s","t","r","e","i","g","h","t","h">> :> <<"s","t","r","e","n","g","t","h">> @@
    <<"t","h","o","u","r","o","u","g","h">> :> <<"t","h","o","r","o","u","g","h">> @@
    <<"t","o","u","n","g","e">> :> <<"t","o","n","g","u","e">>

\* the same table with one correction that is itself a misspelling in the table
dictionaryChained ==
    [entries EXCEPT ![<<"t","h","i","e","r">>] = <<"t","e","h">>]

dictionary == entries

\* A property read on a plain object also finds what Object.prototype holds.
\* The names it defines, with the text String(value) gives for each:
ObjectPrototype ==
    <<"c","o","n","s","t","r","u","c","t","o","r">> :>
        <<"f","u","n","c","t","i","o","n"," ","O","b","j","e","c","t","(",")"," ","{"," ","[","n","a","t","i","v","e"," ","c","o","d","e","]"," ","}">> @@
    <<"_","_","p","r","o","t","o","_","_">> :>
        <<"[","o","b","j","e","c","t"," ","O","b","j","e","c","t","]">> @@
    <<"t","o","S","t","r","i","n","g">> :>
        <<"f","u","n","c","t","i","o","n"," ","t","o","S","t","r","i","n","g","(",")"," ","{"," ","[","n","a","t","i","v","e"," ","c","o","d","e","]"," ","}">> @@
    <<"v","a","l","u","e","O","f">> :>
        <<"f","u","n","c","t","i","o","n"," ","v","a","l","u","e","O","f","(",")"," ","{"," ","[","n","a","t","i","v","e"," ","c","o","d","e","]"," ","}">> @@
    <<"h","a","s","O","w","n","P","r","o","p","e","r","t","y">> :>
        <<"f","u","n","c","t","i","o","n"," ","h","a","s","O","w","n","P","r","o","p","e","r","t","y","(",")"," ","{"," ","[","n","a","t","i","v","e"," ","c","o","d","e","]"," ","}">>

\* the exception a property read on undefined raises; not a string, so no
\* result of the functions below can be confused with it
TypeError == <<"TypeError">>

\* dictionary[lower]: the value of the property read, as
\* [kind, str] with str the string itself or String(value) of an object
dictionaryGet(lower) ==
    IF lower \in DOMAIN dictionary
    THEN [kind |-> "string", str |-> dictionary[lower]]
    ELSE IF lower \in DOMAIN ObjectPrototype
         THEN [kind |-> "object", str |-> ObjectPrototype[lower]]
         ELSE [kind |-> "undefined", str |-> <<>>]

\* the truthiness test of  if (dictionary[lower])
Truthy(v) == v.kind = "object" \/ (v.kind = "string" /\ v.str # <<>>)

(***************************************************************************)
(* autocorrectText(text): the word substitution, then the capitalization   *)
(* pass.                                                                   *)
(***************************************************************************)

\* the callback of text.replace(/\b\w+\b/g, ...): the replacement of one word
spellingCallback(word) ==
    LET lower == toLowerCase(word)
        value == dictionaryGet(lower)
    IN  IF Truthy(value)
        THEN IF word[1] = upperChar(word[1])
             THEN \* dictionary[lower][0].toUpperCase() + dictionary[lower].slice(1)
                  IF value.kind = "string"
                  THEN <<upperChar(value.str[1])>> \o Tail(value.str)
                  ELSE TypeError  \* [0] of an object is undefined
             ELSE value.str
        ELSE word

\* text.replace(/\b\w+\b/g, callback) from 1-based index i on, with acc the
\* result so far: every maximal run of word characters is replaced by what
\* the callback returns; an exception in a callback ends the whole call
RECURSIVE replaceWords(_, _, _)
replaceWords(s, i, acc) ==
    IF i > Len(s) THEN acc
    ELSE IF IsWordChar(s[i])
         THEN LET n == RunLen(s, i, TRUE)
                  r == spellingCallback(SubSeq(s, i, i + n - 1))
              IN  IF r = TypeError THEN TypeError
                  ELSE replaceWords(s, i + n, acc \o r)
         ELSE replaceWords(s, i + 1, Append(acc, s[i]))

fixSpelling(s) == replaceWords(s, 1, <<>>)

\* the quantifier of the separator [.!?]\s+ : at least one space
enoughSpaceLoose(k) == k >= 0

enoughSpace(k) == k >= 1

\* A match of /([.!?]\s+|\n)([a-z])/ starting at 1-based index i: the index of
\* the last character of the separator, or 0 when there is no match. \s+ is
\* greedy; giving characters back leaves a space, not a letter, next.
sepEnd(s, i) ==
    LET k == RunLen(s, i + 1, FALSE)
    IN  IF s[i] \in {".", "!", "?"} /\ enoughSpace(k)
           /\ i + k + 1 <= Len(s) /\ s[i + k + 1] \in Lower
        THEN i + k
        ELSE IF s[i] = "\n" /\ i + 1 <= Len(s) /\ s[i + 1] \in Lower
             THEN i
             ELSE 0

\* corrected.replace(/([.!?]\s+|\n)([a-z])/g, (_, sep, char) => sep +
\* char.toUpperCase()) from index i on: the search goes on after each match
RECURSIVE capitalizeFrom(_, _)
capitalizeFrom(s, i) ==
    IF i > Len(s) THEN <<>>
    ELSE LET e == sepEnd(s, i)
         IN  IF e > 0
             THEN SubSeq(s, i, e) \o <<upperChar(s[e + 1])>> \o capitalizeFrom(s, e + 2)
             ELSE <<s[i]>> \o capitalizeFrom(s, i + 1)

capitalizeAfterPunctuation(s) == capitalizeFrom(s, 1)

\* corrected.replace(/^([a-z])/, (char) => char.toUpperCase())
capitalizeFirst(s) ==
    IF Len(s) > 0 /\ s[1] \in Lower THEN <<upperChar(s[1])>> \o Tail(s) ELSE s

autocorrectText(s) ==
    LET fixed == fixSpelling(s)
    IN  IF fixed = TypeError THEN TypeError
        ELSE capitalizeFirst(capitalizeAfterPunctuation(fixed))

(***************************************************************************)
(* Inputs of the text function.                                            *)
(***************************************************************************)
MaxTextLen == 4

\* the characters of the exhaustively enumerated short texts
TextAlphabet == {"a", "B", "1", ".", "!", " ", "\n"}

ShortTexts == UNION {[1..n -> TextAlphabet] : n \in 0..MaxTextLen}

\* texts of several sentences
ExampleTexts ==
    { <<"h","e","l","l","o","."," ","w","o","r","l","d">>,
      <<"t","e","h"," ","d","o","g"," ","b","a","r","k","s","."," ","t","e","h"," ","c","a","t"," ","m","e","o","w","s">>,
      <<"a","."," ","b","."," ","c">>,
      <<"a","!"," ","b","?"," ","c">>,
      <<"x",".","\n","\n","y">>,
      <<"a","."," ","b","\n","c">>,
      <<"\n","\n","\n","z">>,
      <<"e","n","d",".",".","."," "," ","g","o">>,
      <<"I"," ","r","e","c","i","e","v","e"," ">>,
      <<"3","."," ","a",".","b">>,
      <<"o","k",".","\t","t","h","e","n">> }

\* misspellings in several casings, correct words, and names every object inherits
SampleWords ==
    { <<"t","e","h">>,
      <<"T","e","h">>,
      <<"T","E","H">>,
      <<"t","E","H">>,
      <<"a","l","o","t">>,
      <<"A","l","o","t">>,
      <<"a">>,
      <<"l","o","t">>,
      <<"t","h","i","e","r">>,
      <<"u","n","t","i","l","l">>,
      <<"r","i","d","i","c","u","l","o","u","s">>,
      <<"b","a","n","a","n","a">>,
      <<"B","a","n","a","n","a">>,
      <<"c","o","n","s","t","r","u","c","t","o","r">>,
      <<"C","o","n","s","t","r","u","c","t","o","r">>,
      <<"_","_","p","r","o","t","o","_","_">>,
      <<"t","o","S","t","r","i","n","g">>,
      <<"_","t","e","h">>,
      <<"t","e","h","1">> }

\* what stands between two words
Separators ==
    { <<" ">>,
      <<"."," ">>,
      <<>>,
      <<"\n">>,
      <<"-">> }

\* s with its first character upper-cased
Capitalized(s) == <<upperChar(s[1])>> \o Tail(s)

\* every key of the table, as written, capitalized and in capitals
DictionaryWords ==
    UNION {{k, Capitalized(k), toUpperCase(k)} : k \in DOMAIN dictionary}

WordPairs == {a \o s \o b : a \in SampleWords, s \in Separators, b \in SampleWords}

TextInputs == ShortTexts \cup ExampleTexts \cup SampleWords \cup DictionaryWords \cup WordPairs

\* how often the autocorrect command is run on the same document
MaxRuns == 2


(***************************************************************************)
(* The editor the plugin talks to: a buffer of lines separated by "\n", a  *)
(* cursor, and positions {line, ch} with 0-based line and column.          *)
(***************************************************************************)

\* the lines of buffer d: d.split("\n")
RECURSIVE splitLines(_)
splitLines(d) ==
    IF \A i \in 1..Len(d) : d[i] # "\n" THEN <<d>>
    ELSE LET n == CHOOSE i \in 1..Len(d) :
                      d[i] = "\n" /\ \A j \in 1..(i - 1) : d[j] # "\n"
         IN  <<SubSeq(d, 1, n - 1)>> \o splitLines(SubSeq(d, n + 1, Len(d)))

\* lines.join("")
RECURSIVE joinLines(_)
joinLines(ls) == IF ls = <<>> THEN <<>> ELSE Head(ls) \o joinLines(Tail(ls))

\* offset of the first character of 0-based line n of d
RECURSIVE lineStart(_, _)
lineStart(d, n) ==
    IF n = 0 THEN 0
    ELSE lineStart(d, n - 1) + Len(splitLines(d)[n]) + 1

\* editor.getLine(n)
getLine(d, n) == splitLines(d)[n + 1]

\* editor.offsetToPos(offset), the offset clipped to the buffer
offsetToPos(d, offset) ==
    LET o == IF offset < 0 THEN 0 ELSE IF offset > Len(d) THEN Len(d) ELSE offset
        l == Cardinality({i \in 1..o : d[i] = "\n"})
    IN  [line |-> l, ch |-> o - lineStart(d, l)]

\* editor.posToOffset(pos), the position clipped to the buffer
posToOffset(d, pos) ==
    LET lastLine == Len(splitLines(d)) - 1
    IN  IF pos.line > lastLine THEN Len(d)
        ELSE IF pos.line < 0 THEN 0
        ELSE LET len == Len(getLine(d, pos.line))
                 c == IF pos.ch < 0 THEN 0 ELSE IF pos.ch > len THEN len ELSE pos.ch
             IN  lineStart(d, pos.line) + c

\* where the editor puts an offset when the range from..to becomes n characters
adjustForChange(c, from, to, n) ==
    IF c < from THEN c
    ELSE IF c <= to THEN from + n
    ELSE c + n - (to - from)

\* editor.replaceRange(replacement, from, to) on buffer d with the cursor at
\* offset cur: the new buffer, the new cursor, and the offsets replaced
replaceRange(d, cur, replacement, from, to) ==
    LET a == posToOffset(d, from)
        b == posToOffset(d, to)
        f == IF a <= b THEN a ELSE b
        t == IF a <= b THEN b ELSE a
    IN  [doc |-> SubSeq(d, 1, f) \o replacement \o SubSeq(d, t + 1, Len(d)),
         cursor |-> adjustForChange(cur, f, t, Len(replacement)),
         from |-> f, to |-> t, text |-> replacement]

\* s.split(/\b/) from index i on: the maximal runs of word characters and of
\* other characters, in order
RECURSIVE runsFrom(_, _)
runsFrom(s, i) ==
    IF i > Len(s) THEN <<>>
    ELSE LET n == CHOOSE k \in 1..(Len(s) - i + 1) :
                      /\ \A j \in i..(i + k - 1) : IsWordChar(s[j]) = IsWordChar(s[i])
                      /\ (i + k > Len(s) \/ IsWordChar(s[i + k]) # IsWordChar(s[i]))
         IN  <<SubSeq(s, i, i + n - 1)>> \o runsFrom(s, i + n)

splitWordBoundary(s) == IF s = <<>> THEN <<s>> ELSE runsFrom(s, 1)

\* line.lastIndexOf(w): the 0-based index of the last occurrence, or -1
lastIndexOf(line, w) ==
    LET at == {i \in 0..(Len(line) - Len(w)) : SubSeq(line, i + 1, i + Len(w)) = w}
    IN  IF at = {} THEN -1 ELSE CHOOSE i \in at : \A j \in at : j <= i

(***************************************************************************)
(* applyLiveAutocorrect: the "change" handler it installs.                 *)
(***************************************************************************)

\* A change event is [origin, text, by, h]: origin and text as the editor
\* reports them (text is the list of inserted lines, origin "undefined" when
\* the edit names none), by tells who made the edit ("user" or "plugin") and
\* h is the handler, in registration order, this delivery is for.
triggerChars == {" ", ".", ",", "!", "?", "\n"}

\* a guard that only knows setValue
ignoredOriginOnlySetValue(change) == change.origin = "setValue"

\* line 243: if (!change.origin || change.origin === "setValue") return
ignoredOrigin(change) == change.origin = "undefined" \/ change.origin = "setValue"

\* line 245: change.text.join("").slice(-1), "" for an empty text
lastCharOf(change) ==
    LET joined == joinLines(change.text)
    IN  IF joined = <<>> THEN "" ELSE joined[Len(joined)]

\* line 256: ch: line.lastIndexOf(lastWord)
startOfWord(line, ch, lastWord) == lastIndexOf(line, lastWord)

\* what one call of the handler does to buffer d with the cursor at offset
\* cur: the buffer and cursor it leaves, the replaceRange calls it made, and
\* how far it got
onChange(d, cur, change) ==
    LET lastChar == lastCharOf(change)
        pos == offsetToPos(d, cur)                        \* editor.getCursor()
        line == getLine(d, pos.line)
        words == splitWordBoundary(slice(line, 0, pos.ch))
        hasWord == Len(words) >= 2 /\ words[Len(words) - 1] # <<>>
        lastWord == IF hasWord THEN words[Len(words) - 1] ELSE <<>>
        startCh == startOfWord(line, pos.ch, lastWord)
        endCh == startCh + Len(lastWord)
        correctedWord == autocorrectText(lastWord)
        unchanged == [doc |-> d, cursor |-> cur, calls |-> <<>>, lastChar |-> lastChar,
                      lastWord |-> lastWord, written |-> <<>>,
                      afterWord |-> d, cursorAfterWord |-> cur]
        wordEdit == replaceRange(d, cur, correctedWord,
                                 [line |-> pos.line, ch |-> startCh],
                                 [line |-> pos.line, ch |-> endCh])
        afterWord == IF correctedWord # lastWord THEN wordEdit
                     ELSE [doc |-> d, cursor |-> cur]
        wordCalls == IF correctedWord # lastWord
                     THEN <<[text |-> wordEdit.text, from |-> wordEdit.from, to |-> wordEdit.to]>>
                     ELSE <<>>
        nextCharIndex == pos.ch
        capitalize == /\ lastChar \in {".", "!", "?"}
                      /\ nextCharIndex < Len(line)         \* nextChar is defined
                      /\ line[nextCharIndex + 1] \in Lower
        capEdit == replaceRange(afterWord.doc, afterWord.cursor,
                                <<upperChar(line[nextCharIndex + 1])>>,
                                [line |-> pos.line, ch |-> nextCharIndex],
                                [line |-> pos.line, ch |-> nextCharIndex + 1])
        capCalls == IF capitalize
                    THEN <<[text |-> capEdit.text, from |-> capEdit.from, to |-> capEdit.to]>>
                    ELSE <<>>
    IN  IF ignoredOrigin(change) THEN [unchanged EXCEPT !.lastWord = <<>>] @@ [stage |-> "ignored"]
        ELSE IF lastChar \notin triggerChars
             THEN [unchanged EXCEPT !.lastWord = <<>>] @@ [stage |-> "no trigger"]
        ELSE IF ~hasWord THEN unchanged @@ [stage |-> "no word"]
        ELSE IF correctedWord = TypeError THEN unchanged @@ [stage |-> "threw"]
        ELSE [doc |-> IF capitalize THEN capEdit.doc ELSE afterWord.doc,
              cursor |-> IF capitalize THEN capEdit.cursor ELSE afterWord.cursor,
              calls |-> wordCalls \o capCalls,
              lastChar |-> lastChar,
              lastWord |-> lastWord,
              written |-> correctedWord,
              afterWord |-> afterWord.doc,
              cursorAfterWord |-> afterWord.cursor,
              stage |-> "done"]

(***************************************************************************)
(* State of the text function, the editor, the plugin and the grammar     *)
(* panel.                                                                  *)
(***************************************************************************)
VARIABLES
    text,       \* autocorrectText: the argument of the call in progress
    corrected,  \* autocorrectText: the local variable, then the return value
    spelled,    \* the value of corrected after the word substitution
    pc,         \* autocorrectText: where the call stands
    runs,       \* number of calls started on this document
    first,      \* the return value of the first call
    input       \* the document before the first call

textVars == <<text, corrected, spelled, pc, runs, first, input>>

None == <<"none">>

VARIABLES
    doc,        \* the buffer of the active editor: editor.getValue()
    cursor,     \* the cursor, as an offset into doc
    handlers,   \* number of "change" handlers applyLiveAutocorrect has installed
    events,     \* change events still to be delivered, next one first
    last,       \* what the most recent handler call saw and did
    oneHandler, \* the buffer as the first handler left it after the last keystroke
    edits,      \* replaceRange calls by handlers since the last user action
    actions     \* number of user actions so far

editorVars == <<doc, cursor, handlers, events, last, oneHandler, edits, actions>>

\* the user actions of one behaviour
MaxActions == 3

\* no keystroke has been handled yet
NoBuffer == [doc |-> None, cursor |-> 0]

NoRun ==
    [by |-> "nobody", h |-> 0, stage |-> "none", lastChar |-> "", lastWord |-> <<>>,
     written |-> <<>>, calls |-> <<>>, before |-> <<>>, cursorBefore |-> 0,
     afterWord |-> <<>>, cursorAfterWord |-> 0, after |-> <<>>]

\* the deliveries of one change, one per installed handler
dispatch(origin, lines, by) ==
    [h \in 1..handlers |-> [origin |-> origin, text |-> lines, by |-> by, h |-> h]]

\* the deliveries of the changes a handler's replaceRange calls make, in order
RECURSIVE dispatchCalls(_)
dispatchCalls(calls) ==
    IF calls = <<>> THEN <<>>
    ELSE dispatch("undefined", splitLines(Head(calls).text), "plugin")
            \o dispatchCalls(Tail(calls))

VARIABLES
    panelOpen,  \* whether the panel's container #grammar-issues exists
    panel,      \* what the container shows: "empty", "none found" or "issues"
    issues,     \* the issues rendered in the container, with their fix buttons
    requests,   \* the texts of the grammar checks in flight
    lastCheck,  \* how the most recently finished grammar check ended
    notices,    \* number of notices shown, by message
    lastFix     \* what the most recent click on a fix button replaced

panelVars == <<panelOpen, panel, issues, requests, lastCheck, notices, lastFix>>

vars == <<textVars, editorVars, panelVars>>

NoCheck == [kind |-> "none", notices |-> 0, rendered |-> FALSE]

NoFix ==
    [issue |-> 0, from |-> 0, to |-> 0, removed |-> <<>>, spanAt |-> 0, length |-> 0,
     onlyFixes |-> FALSE]

\* the text function at rest, for the specifications of the editor
TextIdle ==
    /\ input = <<>>
    /\ text = <<>>
    /\ corrected = None
    /\ spelled = None
    /\ pc = "idle"
    /\ runs = 0
    /\ first = None

\* the plugin after onload: no handler installed yet, nothing checked
PluginLoaded ==
    /\ handlers = 0
    /\ events = <<>>
    /\ last = NoRun
    /\ oneHandler = NoBuffer
    /\ edits = 0
    /\ actions = 0
    /\ panel = "empty"
    /\ issues = <<>>
    /\ requests = <<>>
    /\ lastCheck = NoCheck
    /\ notices = [complete |-> 0, error |-> 0]
    /\ lastFix = NoFix

\* where the span at offset at, of the given length, stands after the range
\* from..to of the buffer has become n characters
spanAfter(at, length, from, to, n) ==
    IF at < 0 THEN -1
    ELSE IF to <= at THEN at + n - (to - from)
    ELSE IF from >= at + length THEN at
    ELSE -1

\* the rendered issues after one edit of the buffer
issuesAfter(iss, from, to, n) ==
    [k \in 1..Len(iss) |-> [iss[k] EXCEPT !.at = spanAfter(@, iss[k].length, from, to, n)]]

\* the rendered issues after an edit that no fix button made
otherEdit(iss) == [k \in 1..Len(iss) |-> [iss[k] EXCEPT !.onlyFixes = FALSE]]

\* the rendered issues after the replaceRange calls of a handler, in order
RECURSIVE issuesAfterCalls(_, _)
issuesAfterCalls(iss, calls) ==
    IF calls = <<>> THEN iss
    ELSE issuesAfterCalls(
            otherEdit(issuesAfter(iss, Head(calls).from, Head(calls).to,
                                  Len(Head(calls).text))),
            Tail(calls))

(***************************************************************************)
(* Live typing and the autocorrect command.                                *)
(***************************************************************************)

\* lines 159-164 and 241-242: every active-leaf-change installs one more
\* handler on the editor; none is ever removed
ActiveLeafChange ==
    /\ events = <<>>
    /\ actions < MaxActions
    /\ handlers' = handlers + 1
    /\ actions' = actions + 1
    /\ UNCHANGED <<doc, cursor, events, last, oneHandler, edits>>
    /\ UNCHANGED <<textVars, panelVars>>

\* the keys the user presses
Keys == {" ", ".", ",", "x", "\n"}

\* the user types one character at the cursor; the editor reports the change
\* with origin "+input" and the inserted text as a list of lines
UserType ==
    /\ events = <<>>
    /\ actions < MaxActions
    /\ \E c \in Keys :
          /\ doc' = SubSeq(doc, 1, cursor) \o <<c>> \o SubSeq(doc, cursor + 1, Len(doc))
          /\ events' = dispatch("+input", splitLines(<<c>>), "user")
    /\ cursor' = cursor + 1
    /\ last' = NoRun
    /\ oneHandler' = NoBuffer
    /\ edits' = 0
    /\ issues' = otherEdit(issuesAfter(issues, cursor, cursor, 1))
    /\ actions' = actions + 1
    /\ UNCHANGED handlers
    /\ UNCHANGED <<panelOpen, panel, requests, lastCheck, notices, lastFix>>
    /\ UNCHANGED textVars

\* lines 242-276: the editor calls the next handler with the next change; the
\* changes its replaceRange calls make are delivered before anything else
DeliverChange ==
    /\ events # <<>>
    /\ \E change \in {Head(events)}, r \in {onChange(doc, cursor, Head(events))} :
           /\ doc' = r.doc
           /\ cursor' = r.cursor
           /\ events' = dispatchCalls(r.calls) \o Tail(events)
           /\ last' = [by |-> change.by, h |-> change.h, stage |-> r.stage,
                       lastChar |-> r.lastChar, lastWord |-> r.lastWord,
                       written |-> r.written, calls |-> r.calls,
                       before |-> doc, cursorBefore |-> cursor,
                       afterWord |-> r.afterWord,
                       cursorAfterWord |-> r.cursorAfterWord,
                       after |-> r.doc]
           /\ oneHandler' = IF change.by = "user" /\ change.h = 1
                            THEN [doc |-> r.doc, cursor |-> r.cursor]
                            ELSE oneHandler
           /\ edits' = edits + Len(r.calls)
           /\ issues' = issuesAfterCalls(issues, r.calls)
    /\ UNCHANGED <<handlers, actions>>
    /\ UNCHANGED <<panelOpen, panel, requests, lastCheck, notices, lastFix>>
    /\ UNCHANGED textVars

\* lines 140-145: the command "Autocorrect spelling and capitalization"; an
\* exception in autocorrectText ends the callback before setValue
AutocorrectCommand ==
    /\ events = <<>>
    /\ actions < MaxActions
    /\ LET content == doc
           correctedContent == autocorrectText(content)
       IN  IF correctedContent = TypeError
           THEN UNCHANGED <<doc, cursor, events, notices, issues>>
           ELSE /\ doc' = correctedContent
                /\ cursor' = 0
                /\ events' = dispatch("setValue", splitLines(correctedContent), "plugin")
                /\ notices' = [notices EXCEPT !.complete = @ + 1]
                /\ issues' = otherEdit(issuesAfter(issues, 0, Len(doc), Len(correctedContent)))
    /\ last' = NoRun
    /\ oneHandler' = NoBuffer
    /\ edits' = 0
    /\ actions' = actions + 1
    /\ UNCHANGED handlers
    /\ UNCHANGED textVars
    /\ UNCHANGED <<panelOpen, panel, requests, lastCheck, lastFix>>

\* documents open in the editor when the user starts typing
LiveDocs ==
    { <<"I"," ","r","e","c","i","e","v","e">>,
      <<"t","e","h"," ","t","e","h">>,
      <<"u","n","t","i","l","l","x">>,
      <<"a","l","o","t","x">>,
      <<"b","e","g","i","n","i","n","g","x"," ","y">>,
      <<"h","i","\n","t","e","h"," ","x">>,
      <<"R","e","c","i","e","v","e"," ","i","t">>,
      <<"b","a","n","a","n","a">>,
      <<"x">>,
      <<"c","o","n","s","t","r","u","c","t","o","r">> }

InitLive ==
    /\ doc \in LiveDocs
    /\ cursor \in 0..Len(doc)
    /\ panelOpen = FALSE
    /\ PluginLoaded
    /\ TextIdle

NextLive == ActiveLeafChange \/ UserType \/ DeliverChange \/ AutocorrectCommand

SpecLive == InitLive /\ [][NextLive]_vars

(***************************************************************************)
(* The grammar check and its panel.                                        *)
(***************************************************************************)

\* What the remote service finds in text t from 1-based index i on, as the
\* matches of its reply (offset, length, replacements): every word the
\* dictionary corrects, and every run of two or more blanks.
RECURSIVE matchesFrom(_, _, _)
matchesFrom(t, i, acc) ==
    IF i > Len(t) THEN acc
    ELSE IF IsWordChar(t[i])
         THEN LET n == RunLen(t, i, TRUE)
                  w == toLowerCase(SubSeq(t, i, i + n - 1))
              IN  matchesFrom(t, i + n,
                      IF w \in DOMAIN entries
                      THEN Append(acc, [offset |-> i - 1, length |-> n,
                                        replacements |-> <<entries[w]>>])
                      ELSE acc)
         ELSE IF t[i] = " " /\ RunLen(t, i, FALSE) >= 2
              THEN matchesFrom(t, i + RunLen(t, i, FALSE),
                      Append(acc, [offset |-> i - 1, length |-> RunLen(t, i, FALSE),
                                   replacements |-> <<(<<" ">>)>>]))
              ELSE matchesFrom(t, i + 1, acc)

serviceMatches(t) == matchesFrom(t, 1, <<>>)

\* The ways one request can end. "network error": fetch rejects. A body:
\* "not json" (response.json() rejects), the JSON value null, a JSON object
\* without matches (an error report), or a reply with its list of matches,
\* with or without suggested replacements.
Replies(t) ==
    { [kind |-> "network error", matches |-> <<>>],
      [kind |-> "not json", matches |-> <<>>],
      [kind |-> "null", matches |-> <<>>],
      [kind |-> "no matches field", matches |-> <<>>],
      [kind |-> "matches", matches |-> <<>>],
      [kind |-> "matches", matches |-> serviceMatches(t)],
      [kind |-> "matches",
       matches |-> [k \in 1..Len(serviceMatches(t)) |->
                       [serviceMatches(t)[k] EXCEPT !.replacements = <<>>]]] }

\* lines 215-237: the issues rendered for the matches of a reply to a check
\* of text t. fix says whether the issue has a button; at is the offset where
\* the span the issue refers to stands in the buffer now, -1 once the span
\* has been edited; onlyFixes says that nothing but fix buttons has edited
\* the buffer since the text was sent.
renderIssues(matches, t) ==
    [k \in 1..Len(matches) |->
        [offset |-> matches[k].offset,
         length |-> matches[k].length,
         fix |-> matches[k].replacements # <<>>,
         suggestion |-> IF matches[k].replacements # <<>>
                        THEN matches[k].replacements[1] ELSE <<>>,
         checked |-> t,
         at |-> IF t = doc THEN matches[k].offset ELSE -1,
         onlyFixes |-> t = doc]]

\* lines 132-134, 168-179 and 27-32: the ribbon icon opens a fresh panel
OpenPanel ==
    /\ events = <<>>
    /\ actions < MaxActions
    /\ panelOpen' = TRUE
    /\ panel' = "empty"
    /\ issues' = <<>>
    /\ actions' = actions + 1
    /\ UNCHANGED <<doc, cursor, handlers, events, last, oneHandler, edits>>
    /\ UNCHANGED <<requests, lastCheck, notices, lastFix>>
    /\ UNCHANGED textVars

\* lines 152-155 and 184-193: the command "Check Grammar in Current File"
\* sends the text of the buffer
CheckGrammarCommand ==
    /\ events = <<>>
    /\ actions < MaxActions
    /\ requests' = Append(requests, doc)
    /\ actions' = actions + 1
    /\ UNCHANGED <<doc, cursor, handlers, events, last, oneHandler, edits>>
    /\ UNCHANGED <<panelOpen, panel, issues, lastCheck, notices, lastFix>>
    /\ UNCHANGED textVars

\* lines 197-200: the catch block of checkGrammar
caughtError(kind) ==
    /\ notices' = [notices EXCEPT !.error = @ + 1]
    /\ lastCheck' = [kind |-> kind, notices |-> 1, rendered |-> FALSE]

\* lines 195-213: a request ends, and checkGrammar goes on from its await
RequestEnds ==
    /\ events = <<>>
    /\ \E i \in 1..Len(requests) : \E reply \in Replies(requests[i]) :
          /\ requests' = SubSeq(requests, 1, i - 1) \o SubSeq(requests, i + 1, Len(requests))
          /\ IF reply.kind \in {"network error", "not json"}
             THEN /\ caughtError(reply.kind)
                  /\ UNCHANGED <<panel, issues>>
             ELSE IF ~panelOpen
             THEN \* line 206: no container
                  /\ lastCheck' = [kind |-> reply.kind, notices |-> 0, rendered |-> FALSE]
                  /\ UNCHANGED <<panel, issues, notices>>
             ELSE IF reply.kind = "null"
             THEN \* line 208 has emptied the container when line 210 throws
                  /\ panel' = "empty"
                  /\ issues' = <<>>
                  /\ caughtError(reply.kind)
             ELSE IF reply.kind = "no matches field" \/ reply.matches = <<>>
             THEN /\ panel' = "none found"
                  /\ issues' = <<>>
                  /\ lastCheck' = [kind |-> reply.kind, notices |-> 0, rendered |-> TRUE]
                  /\ UNCHANGED notices
             ELSE /\ panel' = "issues"
                  /\ issues' = renderIssues(reply.matches, requests[i])
                  /\ lastCheck' = [kind |-> reply.kind, notices |-> 0, rendered |-> TRUE]
                  /\ UNCHANGED notices
    /\ UNCHANGED <<editorVars, panelOpen, lastFix>>
    /\ UNCHANGED textVars

\* lines 225-235: a click on the fix button of a rendered issue
FixClick ==
    /\ events = <<>>
    /\ actions < MaxActions
    /\ \E k \in 1..Len(issues) :
          /\ issues[k].fix
          /\ \E r \in {replaceRange(doc, cursor, issues[k].suggestion,
                                    offsetToPos(doc, issues[k].offset),
                                    offsetToPos(doc, issues[k].offset + issues[k].length))} :
                /\ doc' = r.doc
                /\ cursor' = r.cursor
                /\ events' = dispatch("undefined", splitLines(r.text), "plugin")
                /\ issues' = issuesAfter(issues, r.from, r.to, Len(r.text))
                /\ lastFix' = [issue |-> k, from |-> r.from, to |-> r.to,
                               removed |-> SubSeq(doc, r.from + 1, r.to),
                               spanAt |-> issues[k].at,
                               length |-> issues[k].length,
                               onlyFixes |-> issues[k].onlyFixes]
    /\ last' = NoRun
    /\ oneHandler' = NoBuffer
    /\ edits' = 0
    /\ actions' = actions + 1
    /\ UNCHANGED handlers
    /\ UNCHANGED <<panelOpen, panel, requests, lastCheck, notices>>
    /\ UNCHANGED textVars

\* documents open in the editor
Docs ==
    { <<"t","e","h"," "," ","a","l","o","t">>,
      <<"a","l","o","t"," ","t","e","h">>,
      <<"h","i",".","\n","t","e","h">> }

\* after onload; the workspace may have restored the panel
Init ==
    /\ doc \in Docs
    /\ cursor \in 0..Len(doc)
    /\ panelOpen \in BOOLEAN
    /\ PluginLoaded
    /\ TextIdle

Next ==
    \/ ActiveLeafChange
    \/ UserType
    \/ DeliverChange
    \/ AutocorrectCommand
    \/ OpenPanel
    \/ CheckGrammarCommand
    \/ RequestEnds
    \/ FixClick

Spec == Init /\ [][Next]_vars

(***************************************************************************)
(* autocorrectText as the steps of one call, on its own.                   *)
(***************************************************************************)

InitText ==
    /\ doc = <<>>
    /\ cursor = 0
    /\ panelOpen = FALSE
    /\ PluginLoaded
    /\ input \in TextInputs
    /\ text = input
    /\ corrected = None
    /\ spelled = None
    /\ pc = "call"
    /\ runs = 1
    /\ first = None

\* lines 105-113
FixSpelling ==
    /\ pc = "call"
    /\ LET r == fixSpelling(text)
       IN  IF r = TypeError
           THEN /\ pc' = "threw"
                /\ UNCHANGED <<corrected, spelled>>
           ELSE /\ pc' = "spelled"
                /\ corrected' = r
                /\ spelled' = r
    /\ UNCHANGED <<text, runs, first, input>>
    /\ UNCHANGED <<editorVars, panelVars>>

\* lines 116-119
CapitalizeAfterPunctuation ==
    /\ pc = "spelled"
    /\ corrected' = capitalizeAfterPunctuation(corrected)
    /\ pc' = "punctuated"
    /\ UNCHANGED <<text, spelled, runs, first, input>>
    /\ UNCHANGED <<editorVars, panelVars>>

\* lines 120-122
CapitalizeFirst ==
    /\ pc = "punctuated"
    /\ corrected' = capitalizeFirst(corrected)
    /\ pc' = "returned"
    /\ first' = IF runs = 1 THEN corrected' ELSE first
    /\ UNCHANGED <<text, spelled, runs, input>>
    /\ UNCHANGED <<editorVars, panelVars>>

\* the command run again on the document it has just written: lines 141-143
RunAgain ==
    /\ pc = "returned"
    /\ runs < MaxRuns
    /\ text' = corrected
    /\ pc' = "call"
    /\ runs' = runs + 1
    /\ UNCHANGED <<corrected, spelled, first, input>>
    /\ UNCHANGED <<editorVars, panelVars>>

NextText == FixSpelling \/ CapitalizeAfterPunctuation \/ CapitalizeFirst \/ RunAgain

SpecText == InitText /\ [][NextText]_vars

(***************************************************************************)
(* Properties of autocorrectText, checked under SpecText.                  *)
(***************************************************************************)

\* the word tokens of s: its maximal runs of word characters
Tokens(s) ==
    {SubSeq(s, i, j) : <<i, j>> \in
        {p \in (1..Len(s)) \X (1..Len(s)) :
            /\ p[1] <= p[2]
            /\ \A k \in p[1]..p[2] : IsWordChar(s[k])
            /\ (p[1] = 1 \/ ~IsWordChar(s[p[1] - 1]))
            /\ (p[2] = Len(s) \/ ~IsWordChar(s[p[2] + 1]))}}

NoTokenInTable(s) == \A w \in Tokens(s) : toLowerCase(w) \notin DOMAIN entries

\* C4: for every input whose word tokens are all absent from the dictionary
\* table, in any casing, the word substitution raises no exception and
\* returns the input unchanged.
C4_MissesPassThrough ==
    (runs = 1 /\ pc # "call" /\ NoTokenInTable(input))
        => (pc # "threw" /\ spelled = input)

\* index i of s is where a sentence starts: it follows a line break, or one
\* of . ! ? and then one or more spaces
AfterSentenceEnd(s, i) ==
    \/ i > 1 /\ s[i - 1] = "\n"
    \/ \E j \in 1..(i - 2) :
          /\ s[j] \in {".", "!", "?"}
          /\ \A k \in (j + 1)..(i - 1) : IsSpace(s[k])

SentenceCase(s) ==
    [i \in 1..Len(s) |->
        IF s[i] \in Lower /\ (i = 1 \/ AfterSentenceEnd(s, i))
        THEN upperChar(s[i]) ELSE s[i]]

\* C6: the capitalization pass upper-cases exactly the lowercase letter at
\* index 0 and every lowercase letter right after a line break or after one
\* of . ! ? plus one or more spaces, and changes nothing else.
C6_CapitalizationPass ==
    pc = "returned" => corrected = SentenceCase(spelled)

\* C6 witness: a text of three sentences, each capitalized by the pass
C6_Witness ==
    /\ pc = "returned"
    /\ Cardinality({i \in 1..Len(spelled) : corrected[i] # spelled[i]}) >= 3
    /\ \E i \in 2..Len(spelled) : corrected[i] # spelled[i] /\ spelled[i - 1] = "\n"

\* C7: applying the correction twice gives what applying it once gives, for
\* the word substitution alone and for the whole function.
C7_Idempotent ==
    /\ (pc = "returned" /\ runs >= 2) => corrected = first
    /\ (pc = "spelled") => fixSpelling(spelled) = spelled

\* C7 witness: the two-word replacement "a lot" has gone through a second run
C7_Witness ==
    /\ pc = "returned"
    /\ runs = 2
    /\ input = <<"a","l","o","t">>
    /\ corrected = <<"A"," ","l","o","t">>

(***************************************************************************)
(* Properties of the live-typing path, checked under SpecLive.             *)
(***************************************************************************)

\* the handler ran to its end on a change the user typed
HandledKeystroke == last.stage = "done" /\ last.by = "user"

\* C1: the live path rewrites the word before the trigger character exactly
\* as the word-level corrector does: a lowercase misspelling becomes the
\* stored lowercase form, a capitalized one gets its first letter upper-cased,
\* and a word that is no key stays as it is.
C1_LiveGivesWordLevelResult ==
    HandledKeystroke => last.written = fixSpelling(last.lastWord)

\* offset where the run of non-word characters that ends at offset c of d
\* begins: the end of the word token before the trigger character
tokenEndBefore(d, c) ==
    CHOOSE e \in 0..c :
        /\ \A k \in (e + 1)..c : ~IsWordChar(d[k])
        /\ (e = 0 \/ IsWordChar(d[e]))

\* offset where the run of word characters that ends at offset e of d begins
tokenStartBefore(d, e) ==
    CHOOSE s \in 0..e :
        /\ \A k \in (s + 1)..e : IsWordChar(d[k])
        /\ (s = 0 \/ ~IsWordChar(d[s]))

\* C2: a word replacement of the live path replaces exactly the span of the
\* word token before the trigger character that precedes the cursor, and
\* leaves every character outside that span as it was.
C2_ReplacesSpanBeforeCursor ==
    (HandledKeystroke /\ last.written # last.lastWord) =>
        LET e == tokenEndBefore(last.before, last.cursorBefore)
            s == tokenStartBefore(last.before, e)
        IN  last.afterWord =
                SubSeq(last.before, 1, s) \o last.written
                    \o SubSeq(last.before, e + 1, Len(last.before))

\* buffer d with the character right after offset c upper-cased when it is a
\* lowercase letter
capitalizedAfter(d, c) ==
    IF c < Len(d) /\ d[c + 1] \in Lower
    THEN [d EXCEPT ![c + 1] = upperChar(d[c + 1])]
    ELSE d

\* C3: after one of . ! ? the capitalization step upper-cases the character
\* right after the cursor when it is a lowercase letter and changes nothing
\* else, also when the word before was replaced by one of another length.
C3_CapitalizesCharAfterCursor ==
    (HandledKeystroke /\ last.lastChar \in {".", "!", "?"}) =>
        last.after = capitalizedAfter(last.afterWord, last.cursorAfterWord)

\* C9: once every handler has run, one keystroke has left the buffer as a
\* single installed handler leaves it.
C9_ManyHandlersActAsOne ==
    (events = <<>> /\ oneHandler # NoBuffer) => doc = oneHandler.doc

(***************************************************************************)
(* Properties of the plugin as a whole, checked under Spec.                *)
(***************************************************************************)

\* C5: an edit the plugin makes never re-triggers correction: a handler
\* called for such an edit changes nothing, so one user action is followed by
\* at most two edits (a word and a capital) per installed handler.
C5_PluginEditsNotRetriggered ==
    /\ last.by = "plugin" => (last.calls = <<>> /\ last.after = last.before)
    /\ edits <= 2 * handlers

\* C5 witness: a keystroke made a handler replace a word and capitalize a
\* letter, and the handlers have been called for both edits
C5_Witness ==
    /\ events = <<>>
    /\ last.by = "plugin"
    /\ edits = 2

\* C8: a check whose request fails, or whose reply is no JSON or JSON without
\* a list of matches, shows exactly one notice and renders nothing.
C8_FailedCheckNotifiesOnce ==
    lastCheck.kind \in {"network error", "not json", "null", "no matches field"}
        => (lastCheck.notices = 1 /\ ~lastCheck.rendered)

\* C10: when only fixes have edited the buffer since the check, a fix
\* replaces exactly the span its issue refers to, wherever earlier fixes have
\* moved that span.
C10_FixReplacesReferredSpan ==
    (lastFix.issue # 0 /\ lastFix.onlyFixes /\ lastFix.spanAt >= 0) =>
        /\ lastFix.from = lastFix.spanAt
        /\ lastFix.to = lastFix.spanAt + lastFix.length

====
